---- MODULE Spec2Model ----
(***************************************************************************)
(* The wl_seat global of smithay (src/wayland/seat/mod.rs): the shared,    *)
(* mutex-guarded seat state, the capability broadcast, the bind of the     *)
(* global, the requests of a bound wl_seat, its destruction callback and   *)
(* the queries of Seat.                                                    *)
(*                                                                         *)
(* Two threads run the operations: "disp" runs the callbacks the wayland   *)
(* runtime dispatches with &mut D (new_wl_seat, bind, request, destroyed), *)
(* "app" holds a clone of the Seat handle and runs attach/detach and the   *)
(* queries.  The connection runtime may close a client at any moment.      *)
(***************************************************************************)
EXTENDS Integers, Sequences, FiniteSets, TLC

\* ---------------------------------------------------------------- bounds
\* the calls that create something (a wl_seat by bind, a device handle by attach, a
\* sub-object by get_pointer / get_keyboard / get_touch) that a behaviour may make
MaxCalls == 3

\* ------------------------------------------------------------- constants
\* wl_seat::Capability bits
CapPointer == 1
CapKeyboard == 2
CapTouch == 4
\* version the global is created with
GlobalVersion == 9
\* first version that has the name event
NameSince == 2

\* the seats the application advertises, by name, in this order
SeatNames == <<"seat-0", "seat-1">>
SeatIds == {SeatNames[i] : i \in 1..Len(SeatNames)}
GlobalIds == 1..Len(SeatNames)
ObjIds == 1..MaxCalls
SubIds == 1..MaxCalls
HandleIds == 1..MaxCalls
Threads == {"disp", "app"}
Clients == {"A", "B"}
Devices == {"pointer", "keyboard", "touch"}
Versions == {1, NameSince, GlobalVersion}
\* Option::None of a handle or a global id, an argument that is not used
None == 0
NoSeat == "-"

VARIABLES
    made,        \* seats whose shared state exists (Arc<SeatRc>)
    registry,    \* the display's globals: registry[g] is the seat of global id g
    global,      \* Inner.global of each seat: None or a global id
    dev,         \* Inner.pointer / keyboard / touch: None or a handle id
    known_seats, \* Inner.known_seats: the weak references, in push order
    lock,        \* the mutex of each seat's Inner: "free" or the holding thread
    obj,         \* the wl_seat resources of the object table
    events,      \* the events sent to each wl_seat resource, in order
    connected,   \* the client connections still open
    subs,        \* the wl_pointer / wl_keyboard / wl_touch resources created
    registered,  \* per device handle, the sub-objects registered with it
    nextHandle,  \* the handles created so far, plus one
    pc,          \* where each thread is
    cur          \* the arguments and locals of the operation a thread runs

vars == <<made, registry, global, dev, known_seats, lock, obj, events, connected,
          subs, registered, nextHandle, pc, cur>>

\* ------------------------------------------------------------ the runtime
NoObject == [status |-> "none", seat |-> NoSeat, client |-> "A", version |-> 1]
NoSub == [status |-> "none", kind |-> "pointer", obj |-> None, handle |-> None]
\* seat, obj, dev, client: the arguments; id: a local; bool, list: the value returned
NoArgs == [seat |-> NoSeat, obj |-> None, dev |-> "pointer", client |-> "A", id |-> None,
           bool |-> FALSE, list |-> <<>>]

NameEvent(n) == [type |-> "name", name |-> n, mask |-> 0, at |-> {}]
\* a capabilities event; "at" records the devices present when it was generated
CapsEvent(m, present) == [type |-> "capabilities", name |-> "", mask |-> m, at |-> present]

\* Weak::upgrade: the object is still in the object table of an open connection
Upgrade(o) == obj[o].status = "live"

\* Resource::id equality of a weak reference and a resource
SameId(w, o) == w = o

Range(q) == {q[i] : i \in 1..Len(q)}

\* the devices an Inner has
Present(inner) == {d \in Devices : inner[d] # None}

\* -------------------------------------------------------- capabilities
BitOr(caps, bit) == IF (caps \div bit) % 2 = 1 THEN caps ELSE caps + bit

\* mutant: the touch branch sets the keyboard bit
compute_caps_WrongBit(inner) ==
    LET c1 == IF inner["pointer"] # None THEN BitOr(0, CapPointer) ELSE 0
        c2 == IF inner["keyboard"] # None THEN BitOr(c1, CapKeyboard) ELSE c1
    IN  IF inner["touch"] # None THEN BitOr(c2, CapKeyboard) ELSE c2

\* Inner::compute_caps, of the device fields of an Inner
compute_caps(inner) ==
    LET c0 == 0
        c1 == IF inner["pointer"] # None THEN BitOr(c0, CapPointer) ELSE c0
        c2 == IF inner["keyboard"] # None THEN BitOr(c1, CapKeyboard) ELSE c1
        c3 == IF inner["touch"] # None THEN BitOr(c2, CapTouch) ELSE c2
    IN  c3

\* resource.capabilities(caps): append the event to the resource's stream
SendCaps(ev, o, caps, present) ==
    [ev EXCEPT ![o] = Append(@, CapsEvent(caps, present))]

\* mutant: the loop ends at the first entry that does not resolve
RECURSIVE CastFrom_StopAtDead(_, _, _, _, _)
CastFrom_StopAtDead(ev, seats, i, caps, present) ==
    IF i > Len(seats) \/ ~Upgrade(seats[i]) THEN ev
    ELSE CastFrom_StopAtDead(SendCaps(ev, seats[i], caps, present), seats, i + 1, caps, present)

\* mutant: the event is sent to every entry, resolved or not
RECURSIVE CastFrom_NoUpgrade(_, _, _, _, _)
CastFrom_NoUpgrade(ev, seats, i, caps, present) ==
    IF i > Len(seats) THEN ev
    ELSE CastFrom_NoUpgrade(SendCaps(ev, seats[i], caps, present), seats, i + 1, caps, present)

\* for seat in &self.known_seats { if let Ok(seat) = seat.upgrade() { .. } }
RECURSIVE CastFrom(_, _, _, _, _)
CastFrom(ev, seats, i, caps, present) ==
    IF i > Len(seats) THEN ev
    ELSE CastFrom(IF Upgrade(seats[i]) THEN SendCaps(ev, seats[i], caps, present) ELSE ev,
                  seats, i + 1, caps, present)

\* Inner::send_all_caps, of the known_seats and the device fields of an Inner
send_all_caps(ev, seats, inner) == CastFrom(ev, seats, 1, compute_caps(inner), Present(inner))

\* ------------------------------------------------------------------ Init
Init ==
    /\ made = {}
    /\ registry = <<>>
    /\ global = [s \in SeatIds |-> None]
    /\ dev = [s \in SeatIds |-> [d \in Devices |-> None]]
    /\ known_seats = [s \in SeatIds |-> <<>>]
    /\ lock = [s \in SeatIds |-> "free"]
    /\ obj = [o \in ObjIds |-> NoObject]
    /\ events = [o \in ObjIds |-> <<>>]
    /\ connected = [c \in Clients |-> TRUE]
    /\ subs = [x \in SubIds |-> NoSub]
    /\ registered = [h \in HandleIds |-> {}]
    /\ nextHandle = 1
    /\ pc = [t \in Threads |-> "idle"]
    /\ cur = [t \in Threads |-> NoArgs]

\* the calls made so far that created something: binds, sub-objects, device handles
Calls == Cardinality({o \in ObjIds : obj[o].status # "none"})
         + Cardinality({x \in SubIds : subs[x].status # "none"}) + (nextHandle - 1)

Goto(t, where) == pc' = [pc EXCEPT ![t] = where]
Acquire(t, s) == lock[s] = "free" /\ lock' = [lock EXCEPT ![s] = t]
Release(s) == lock' = [lock EXCEPT ![s] = "free"]
Return(t) == pc' = [pc EXCEPT ![t] = "idle"] /\ cur' = [cur EXCEPT ![t] = NoArgs]

\* the Seat handle of s has been returned to the application
Returned(s) == s \in made /\ ~(cur["disp"].seat = s /\ pc["disp"] \in {"adv_lock", "adv_store"})

\* ----------------------------------------------- SeatState::new_wl_seat
\* new_seat(name) and display.create_global(9, SeatGlobalData { arc })
AdvCreate(s) ==
    /\ pc["disp"] = "idle"
    /\ Cardinality(made) < Len(SeatNames)
    /\ s = SeatNames[Cardinality(made) + 1]
    /\ /\ made' = made \cup {s}
        /\ registry' = Append(registry, s)
        /\ cur' = [cur EXCEPT !["disp"] = [NoArgs EXCEPT !.seat = s, !.id = Len(registry) + 1]]
    /\ Goto("disp", "adv_lock")
    /\ UNCHANGED <<global, dev, known_seats, lock, obj, events, connected, subs,
                   registered, nextHandle>>

\* arc.inner.lock().unwrap()
AdvLock ==
    /\ pc["disp"] = "adv_lock"
    /\ Acquire("disp", cur["disp"].seat)
    /\ Goto("disp", "adv_store")
    /\ UNCHANGED <<made, registry, global, dev, known_seats, obj, events, connected,
                   subs, registered, nextHandle, cur>>

\* .global = Some(global_id); the guard is dropped with the statement
AdvStore ==
    /\ pc["disp"] = "adv_store"
    /\ global' = [global EXCEPT ![cur["disp"].seat] = cur["disp"].id]
    /\ Release(cur["disp"].seat)
    /\ Return("disp")
    /\ UNCHANGED <<made, registry, dev, known_seats, obj, events, connected, subs,
                   registered, nextHandle>>

\* ------------------------------------------------- GlobalDispatch::bind
NewObj == Cardinality({o \in ObjIds : obj[o].status # "none"}) + 1

\* mutant: the name is sent from version 3 on
BindInit_LateName(g, c, v) ==
    /\ pc["disp"] = "idle"
    /\ g \in 1..Len(registry)
    /\ connected[c]
    /\ Calls < MaxCalls
    /\ LET o == NewObj
           s == registry[g] IN
        /\ obj' = [obj EXCEPT ![o] = [status |-> "live", seat |-> s, client |-> c, version |-> v]]
        /\ events' = [events EXCEPT ![o] =
                         IF v > NameSince THEN <<NameEvent(s)>> ELSE <<>>]
        /\ cur' = [cur EXCEPT !["disp"] = [NoArgs EXCEPT !.seat = s, !.obj = o, !.client = c]]
    /\ Goto("disp", "bind_lock")
    /\ UNCHANGED <<made, registry, global, dev, known_seats, lock, connected, subs,
                   registered, nextHandle>>

\* data_init.init(resource, data); if resource.version() >= 2 { resource.name(..) }
BindInit(g, c, v) ==
    /\ pc["disp"] = "idle"
    /\ g \in 1..Len(registry)
    /\ connected[c]
    /\ Calls < MaxCalls
    /\ LET o == NewObj
           s == registry[g] IN
        /\ obj' = [obj EXCEPT ![o] = [status |-> "live", seat |-> s, client |-> c, version |-> v]]
        /\ events' = [events EXCEPT ![o] =
                         IF v >= NameSince THEN <<NameEvent(s)>> ELSE <<>>]
        /\ cur' = [cur EXCEPT !["disp"] = [NoArgs EXCEPT !.seat = s, !.obj = o, !.client = c]]
    /\ Goto("disp", "bind_lock")
    /\ UNCHANGED <<made, registry, global, dev, known_seats, lock, connected, subs,
                   registered, nextHandle>>

\* let mut inner = global_data.arc.inner.lock().unwrap();
BindLock ==
    /\ pc["disp"] = "bind_lock"
    /\ Acquire("disp", cur["disp"].seat)
    /\ Goto("disp", "bind_caps")
    /\ UNCHANGED <<made, registry, global, dev, known_seats, obj, events, connected,
                   subs, registered, nextHandle, cur>>

\* mutant: the guard is dropped after the capabilities are sent, and the push runs
\* in a critical section of its own
BindCaps_TwoSections ==
    /\ pc["disp"] = "bind_caps"
    /\ LET s == cur["disp"].seat IN
        events' = SendCaps(events, cur["disp"].obj, compute_caps(dev[s]), Present(dev[s]))
    /\ Release(cur["disp"].seat)
    /\ Goto("disp", "bind_push")
    /\ UNCHANGED <<made, registry, global, dev, known_seats, obj, connected, subs,
                   registered, nextHandle, cur>>

\* mutant: an empty bitmask is not announced
BindCaps_SkipEmpty ==
    /\ pc["disp"] = "bind_caps"
    /\ LET s == cur["disp"].seat IN
        events' = IF compute_caps(dev[s]) = 0 THEN events
                  ELSE SendCaps(events, cur["disp"].obj, compute_caps(dev[s]), Present(dev[s]))
    /\ Goto("disp", "bind_push")
    /\ UNCHANGED <<made, registry, global, dev, known_seats, lock, obj, connected, subs,
                   registered, nextHandle, cur>>

\* resource.capabilities(inner.compute_caps());
BindCaps ==
    /\ pc["disp"] = "bind_caps"
    /\ LET s == cur["disp"].seat IN
        events' = SendCaps(events, cur["disp"].obj, compute_caps(dev[s]), Present(dev[s]))
    /\ Goto("disp", "bind_push")
    /\ UNCHANGED <<made, registry, global, dev, known_seats, lock, obj, connected, subs,
                   registered, nextHandle, cur>>

\* mutant: the weak reference is pushed twice
BindPush_Twice ==
    /\ pc["disp"] = "bind_push"
    /\ known_seats' = [known_seats EXCEPT ![cur["disp"].seat] =
                          Append(Append(@, cur["disp"].obj), cur["disp"].obj)]
    /\ Goto("disp", "bind_ret")
    /\ UNCHANGED <<made, registry, global, dev, lock, obj, events, connected, subs,
                   registered, nextHandle, cur>>

\* inner.known_seats.push(resource.downgrade());
BindPush ==
    /\ pc["disp"] = "bind_push"
    /\ known_seats' = [known_seats EXCEPT ![cur["disp"].seat] = Append(@, cur["disp"].obj)]
    /\ Goto("disp", "bind_ret")
    /\ UNCHANGED <<made, registry, global, dev, lock, obj, events, connected, subs,
                   registered, nextHandle, cur>>

\* the end of bind: the guard is dropped
BindRet ==
    /\ pc["disp"] = "bind_ret"
    /\ Release(cur["disp"].seat)
    /\ Return("disp")
    /\ UNCHANGED <<made, registry, global, dev, known_seats, obj, events, connected,
                   subs, registered, nextHandle>>

\* --------------------------------------------------- Dispatch::destroyed
\* the runtime closes the connection of a client: its objects stop resolving, and
\* their destroyed callbacks are still to run
Disconnect(c) ==
    /\ connected[c]
    /\ \E o \in ObjIds : obj[o].status = "live" /\ obj[o].client = c
    /\ connected' = [connected EXCEPT ![c] = FALSE]
    /\ obj' = [o \in ObjIds |->
                 IF obj[o].status = "live" /\ obj[o].client = c
                 THEN [obj[o] EXCEPT !.status = "dead"] ELSE obj[o]]
    /\ UNCHANGED <<made, registry, global, dev, known_seats, lock, events, subs,
                   registered, nextHandle, pc, cur>>

\* the bind that creates o is still running
InBind(o) == cur["disp"].obj = o /\ pc["disp"] \in {"bind_lock", "bind_caps", "bind_push", "bind_ret"}

\* the runtime destroys one object (a destructor request, a protocol error): it stops
\* resolving, and its destroyed callback is still to run
Destroy(o) ==
    /\ obj[o].status = "live"
    /\ obj' = [obj EXCEPT ![o].status = "dead"]
    /\ UNCHANGED <<made, registry, global, dev, known_seats, lock, events, connected,
                   subs, registered, nextHandle, pc, cur>>

\* the same, for an object whose bind has returned
DestroyBound(o) == ~InBind(o) /\ Destroy(o)

\* data.arc.inner.lock().unwrap()
DestroyedLock(o) ==
    /\ pc["disp"] = "idle"
    /\ obj[o].status = "dead"
    /\ Acquire("disp", obj[o].seat)
    /\ cur' = [cur EXCEPT !["disp"] = [NoArgs EXCEPT !.seat = obj[o].seat, !.obj = o]]
    /\ Goto("disp", "des_retain")
    /\ UNCHANGED <<made, registry, global, dev, known_seats, obj, events, connected,
                   subs, registered, nextHandle>>

\* mutant: the entry is taken out by Vec::swap_remove, which moves the last entry
\* into its place
Retain_SwapRemove(q, o) ==
    IF \A i \in 1..Len(q) : ~SameId(q[i], o) THEN q
    ELSE LET i == CHOOSE k \in 1..Len(q) : SameId(q[k], o) IN
         [k \in 1..(Len(q) - 1) |-> IF k = i THEN q[Len(q)] ELSE q[k]]

\* Vec::retain(|s| s.id() != seat.id())
Retain(q, o) == SelectSeq(q, LAMBDA w : ~SameId(w, o))

\* mutant: destroyed returns without pruning
DestroyedRetain_Skip ==
    /\ pc["disp"] = "des_retain"
    /\ obj' = [obj EXCEPT ![cur["disp"].obj].status = "gone"]
    /\ Release(cur["disp"].seat)
    /\ Return("disp")
    /\ UNCHANGED <<made, registry, global, dev, known_seats, events, connected, subs,
                   registered, nextHandle>>

\* .known_seats.retain(..); the guard is dropped with the statement
DestroyedRetain ==
    /\ pc["disp"] = "des_retain"
    /\ known_seats' = [known_seats EXCEPT ![cur["disp"].seat] = Retain(@, cur["disp"].obj)]
    /\ obj' = [obj EXCEPT ![cur["disp"].obj].status = "gone"]
    /\ Release(cur["disp"].seat)
    /\ Return("disp")
    /\ UNCHANGED <<made, registry, global, dev, events, connected, subs, registered,
                   nextHandle>>

\* ------------------------------------------------ attach / detach a device
\* Seat::add_pointer / add_keyboard / add_touch and Seat::remove_*: each runs under
\* the lock of the seat from its first statement to its return, so each is one step.
CanCall(s) == pc["app"] = "idle" /\ Returned(s) /\ lock[s] = "free"

\* the device is absent: the field is set to a new handle and the change is broadcast
Attach(s, d) ==
    /\ CanCall(s)
    /\ Calls < MaxCalls
    /\ dev[s][d] = None
    /\ LET inner == [dev[s] EXCEPT ![d] = nextHandle] IN
        /\ dev' = [dev EXCEPT ![s] = inner]
        /\ events' = send_all_caps(events, known_seats[s], inner)
    /\ nextHandle' = nextHandle + 1
    /\ UNCHANGED <<made, registry, global, known_seats, lock, obj, connected, subs,
                   registered, pc, cur>>

\* the device is present and the new handle takes its place: the bitmask does not
\* change and nothing is broadcast
AttachReplace(s, d) ==
    /\ CanCall(s)
    /\ Calls < MaxCalls
    /\ dev[s][d] # None
    /\ dev' = [dev EXCEPT ![s][d] = nextHandle]
    /\ nextHandle' = nextHandle + 1
    /\ UNCHANGED <<made, registry, global, known_seats, lock, obj, events, connected,
                   subs, registered, pc, cur>>

\* the device is present and is first taken away, which is a transition of its own
\* and is broadcast; then the new handle is set and that change is broadcast
AttachAnew(s, d) ==
    /\ CanCall(s)
    /\ Calls < MaxCalls
    /\ dev[s][d] # None
    /\ LET without == [dev[s] EXCEPT ![d] = None]
           inner == [dev[s] EXCEPT ![d] = nextHandle] IN
        /\ dev' = [dev EXCEPT ![s] = inner]
        /\ events' = send_all_caps(send_all_caps(events, known_seats[s], without),
                                   known_seats[s], inner)
    /\ nextHandle' = nextHandle + 1
    /\ UNCHANGED <<made, registry, global, known_seats, lock, obj, connected, subs,
                   registered, pc, cur>>

\* the device is present: the field is cleared and the change is broadcast
Detach(s, d) ==
    /\ CanCall(s)
    /\ dev[s][d] # None
    /\ LET inner == [dev[s] EXCEPT ![d] = None] IN
        /\ dev' = [dev EXCEPT ![s] = inner]
        /\ events' = send_all_caps(events, known_seats[s], inner)
    /\ UNCHANGED <<made, registry, global, known_seats, lock, obj, connected, subs,
                   registered, nextHandle, pc, cur>>

\* the device is absent: no transition, nothing is broadcast
DetachAbsent(s, d) ==
    /\ CanCall(s)
    /\ dev[s][d] = None
    /\ UNCHANGED vars

\* ---------------------------------------------------- Dispatch::request
NewSub == Cardinality({x \in SubIds : subs[x].status # "none"}) + 1

\* wl_seat::Request::Get{Pointer,Keyboard,Touch}: data.arc.inner.lock().unwrap()
GetLock(o, d) ==
    /\ pc["disp"] = "idle"
    /\ obj[o].status = "live"
    /\ Calls < MaxCalls
    /\ Acquire("disp", obj[o].seat)
    /\ cur' = [cur EXCEPT !["disp"] =
                  [NoArgs EXCEPT !.seat = obj[o].seat, !.obj = o, !.dev = d]]
    /\ Goto("disp", IF d = "keyboard" THEN "get_init" ELSE "get_scale")
    /\ UNCHANGED <<made, registry, global, dev, known_seats, obj, events, connected,
                   subs, registered, nextHandle>>

\* state.client_compositor_state(client).clone_client_scale()
GetScale ==
    /\ pc["disp"] = "get_scale"
    /\ Goto("disp", "get_init")
    /\ UNCHANGED <<made, registry, global, dev, known_seats, lock, obj, events, connected,
                   subs, registered, nextHandle, cur>>

\* data_init.init(id, XUserData { handle: inner.x.clone(), .. })
GetInit ==
    /\ pc["disp"] = "get_init"
    /\ LET a == cur["disp"] IN
        /\ subs' = [subs EXCEPT ![NewSub] =
                       [status |-> "live", kind |-> a.dev, obj |-> a.obj,
                        handle |-> dev[a.seat][a.dev]]]
        /\ cur' = [cur EXCEPT !["disp"].id = NewSub]
    /\ Goto("disp", "get_new")
    /\ UNCHANGED <<made, registry, global, dev, known_seats, lock, obj, events, connected,
                   registered, nextHandle>>

\* PointerHandle::new_pointer / KeyboardHandle::new_kbd / TouchHandle::new_touch
new_object(reg, h, x) == [reg EXCEPT ![h] = @ \cup {x}]

\* mutant: the new object is not handed to the device handle
GetNew_Forget ==
    /\ pc["disp"] = "get_new"
    /\ dev[cur["disp"].seat][cur["disp"].dev] # None
    /\ Release(cur["disp"].seat)
    /\ Return("disp")
    /\ UNCHANGED <<made, registry, global, dev, known_seats, obj, events, connected,
                   subs, registered, nextHandle>>

\* if let Some(ref h) = inner.x { h.new_x(x) }, and the guard is dropped
GetNew ==
    /\ pc["disp"] = "get_new"
    /\ dev[cur["disp"].seat][cur["disp"].dev] # None
    /\ registered' = new_object(registered, dev[cur["disp"].seat][cur["disp"].dev], cur["disp"].id)
    /\ Release(cur["disp"].seat)
    /\ Return("disp")
    /\ UNCHANGED <<made, registry, global, dev, known_seats, obj, events, connected,
                   subs, nextHandle>>

\* else { the object just remains inactive }, and the guard is dropped
GetInert ==
    /\ pc["disp"] = "get_new"
    /\ dev[cur["disp"].seat][cur["disp"].dev] = None
    /\ Release(cur["disp"].seat)
    /\ Return("disp")
    /\ UNCHANGED <<made, registry, global, dev, known_seats, obj, events, connected,
                   subs, registered, nextHandle>>

\* mutant: release prunes the entry of its object, as the destruction path does
ReleaseReq_Prune(o) ==
    /\ pc["disp"] = "idle"
    /\ obj[o].status = "live"
    /\ known_seats' = [known_seats EXCEPT ![obj[o].seat] = Retain(@, o)]
    /\ cur' = [cur EXCEPT !["disp"] = [NoArgs EXCEPT !.seat = obj[o].seat, !.obj = o]]
    /\ Goto("disp", "release")
    /\ UNCHANGED <<made, registry, global, dev, lock, obj, events, connected, subs,
                   registered, nextHandle>>

\* wl_seat::Request::Release => { }: the arm is entered; no lock is taken
ReleaseReq(o) ==
    /\ pc["disp"] = "idle"
    /\ obj[o].status = "live"
    /\ cur' = [cur EXCEPT !["disp"] = [NoArgs EXCEPT !.seat = obj[o].seat, !.obj = o]]
    /\ Goto("disp", "release")
    /\ UNCHANGED <<made, registry, global, dev, known_seats, lock, obj, events, connected,
                   subs, registered, nextHandle>>

\* the arm is empty ("Our destructors already handle it") and request returns
ReleaseRet ==
    /\ pc["disp"] = "release"
    /\ Return("disp")
    /\ UNCHANGED <<made, registry, global, dev, known_seats, lock, obj, events, connected,
                   subs, registered, nextHandle>>

\* _ => unreachable!(): a request of any other kind makes request panic at the match,
\* before any lock is taken.  The panic unwinds out of the dispatch of the runtime:
\* the call never returns to it, and nothing here closes the connection of the client.
OtherReq(o) ==
    /\ pc["disp"] = "idle"
    /\ obj[o].status = "live"
    /\ cur' = [cur EXCEPT !["disp"] = [NoArgs EXCEPT !.seat = obj[o].seat, !.obj = o]]
    /\ Goto("disp", "panicked")
    /\ UNCHANGED <<made, registry, global, dev, known_seats, lock, obj, events, connected,
                   subs, registered, nextHandle>>

\* state.client_compositor_state(client), when the callback of the application calls
\* a method of this seat (owns, client_seats, global, an attach): the method locks the
\* mutex its own thread holds.  std::sync::Mutex::lock leaves that unspecified ("it
\* might panic or deadlock"): here the call blocks for ever.
GetScaleReenterBlocks ==
    /\ pc["disp"] = "get_scale"
    /\ lock[cur["disp"].seat] = "disp"
    /\ Goto("disp", "get_scale_blocked")
    /\ UNCHANGED <<made, registry, global, dev, known_seats, lock, obj, events, connected,
                   subs, registered, nextHandle, cur>>

\* the same, when the second lock panics: the unwinding drops the guard of request
\* with the panic in flight, which poisons the mutex
GetScaleReenterPanics ==
    /\ pc["disp"] = "get_scale"
    /\ lock[cur["disp"].seat] = "disp"
    /\ lock' = [lock EXCEPT ![cur["disp"].seat] = "poisoned"]
    /\ Goto("disp", "panicked")
    /\ UNCHANGED <<made, registry, global, dev, known_seats, obj, events, connected,
                   subs, registered, nextHandle, cur>>

\* ------------------------------------------------------------- queries
\* Each query holds the lock of the seat from its first statement to its return, so
\* each is one step; the value it returns is in cur until the caller has taken it.

\* inner.known_seats.iter().any(|s| s == seat)
owns(s, o) == \E i \in 1..Len(known_seats[s]) : SameId(known_seats[s][i], o)

\* Seat::owns
Owns(s, o) ==
    /\ CanCall(s)
    /\ obj[o].status # "none"
    /\ cur' = [cur EXCEPT !["app"].bool = owns(s, o)]
    /\ Goto("app", "owns_ret")
    /\ UNCHANGED <<made, registry, global, dev, known_seats, lock, obj, events, connected,
                   subs, registered, nextHandle>>

\* mutant: the entries are not resolved
Upgraded_All(q) == q

\* .filter_map(|w| w.upgrade().ok())
Upgraded(q) == SelectSeq(q, Upgrade)

\* .filter(|s| s.client().is_some_and(|c| &c == client))
OfClient(q, c) == SelectSeq(q, LAMBDA o : connected[obj[o].client] /\ obj[o].client = c)

\* .known_seats.iter().filter_map(..).filter(..).collect()
client_seats(s, c) == OfClient(Upgraded(known_seats[s]), c)

\* mutant: the lookup drops the entries that do not resolve while it goes over them
ClientSeats_Prune(s, c) ==
    /\ CanCall(s)
    /\ cur' = [cur EXCEPT !["app"].list = client_seats(s, c)]
    /\ known_seats' = [known_seats EXCEPT ![s] = Upgraded(@)]
    /\ Goto("app", "client_seats_ret")
    /\ UNCHANGED <<made, registry, global, dev, lock, obj, events, connected,
                   subs, registered, nextHandle>>

\* Seat::client_seats
ClientSeats(s, c) ==
    /\ CanCall(s)
    /\ cur' = [cur EXCEPT !["app"].list = client_seats(s, c)]
    /\ Goto("app", "client_seats_ret")
    /\ UNCHANGED <<made, registry, global, dev, known_seats, lock, obj, events, connected,
                   subs, registered, nextHandle>>

\* mutant: the identifier is moved out of the field (Option::take)
Global_Take(s) ==
    /\ CanCall(s)
    /\ cur' = [cur EXCEPT !["app"].id = global[s]]
    /\ global' = [global EXCEPT ![s] = None]
    /\ Goto("app", "global_ret")
    /\ UNCHANGED <<made, registry, dev, known_seats, lock, obj, events, connected,
                   subs, registered, nextHandle>>

\* Seat::global: self.arc.inner.lock().unwrap().global.as_ref().cloned()
Global(s) ==
    /\ CanCall(s)
    /\ cur' = [cur EXCEPT !["app"].id = global[s]]
    /\ Goto("app", "global_ret")
    /\ UNCHANGED <<made, registry, global, dev, known_seats, lock, obj, events, connected,
                   subs, registered, nextHandle>>

\* mutant: the seat state is a singleton, the one of the first seat advertised
from_resource_First(o) == SeatNames[1]

\* seat.data::<SeatUserData<D>>().map(|d| d.arc.clone()): the arc bind stored in the
\* user data of the resource
from_resource(o) == obj[o].seat

\* Seat::from_resource, of a wl_seat that bind has created: it takes no lock
FromResource(o) ==
    /\ pc["app"] = "idle"
    /\ obj[o].status # "none"
    /\ cur' = [cur EXCEPT !["app"].obj = o, !["app"].seat = from_resource(o)]
    /\ Goto("app", "from_resource_ret")
    /\ UNCHANGED <<made, registry, global, dev, known_seats, lock, obj, events, connected,
                   subs, registered, nextHandle>>

\* ------------------------------------------------------- WaylandFocus
\* An Option is a sequence of no or one element; Option::map applies the closure to
\* the element, if there is one.
Some(x) == <<x>>
OptUnwrapOr(opt, default) == IF Len(opt) = 0 THEN default ELSE opt[1]

\* a wl_surface, by the connection its ObjectId belongs to
Surface(c) == [client |-> c]
\* the focus targets: a WlSurface itself, and a target of the application that has
\* an underlying surface or has none
FocusTargets ==
    {[kind |-> "WlSurface", surface |-> Some(Surface(c))] : c \in Clients}
    \cup {[kind |-> "other", surface |-> Some(Surface(c))] : c \in Clients}
    \cup {[kind |-> "other", surface |-> <<>>]}

\* WaylandFocus::wl_surface: Some(Cow::Borrowed(self)) of a WlSurface, and what the
\* implementation of any other target returns
wl_surface(t) == IF t.kind = "WlSurface" THEN Some(t.surface[1]) ELSE t.surface

\* ObjectId::same_client_as of the id of a surface and the id of a wl_seat resource
IdSameClientAs(sf, o) == sf.client = obj[o].client

\* mutant: a target without a surface belongs to every client
same_client_as_OrTrue(t, o) ==
    LET opt == wl_surface(t)
        mapped == [i \in 1..Len(opt) |-> IdSameClientAs(opt[i], o)]
    IN  OptUnwrapOr(mapped, TRUE)

\* self.wl_surface().map(|s| s.id().same_client_as(object_id)).unwrap_or(false)
same_client_as(t, o) ==
    LET opt == wl_surface(t)
        mapped == [i \in 1..Len(opt) |-> IdSameClientAs(opt[i], o)]
    IN  OptUnwrapOr(mapped, FALSE)

\* WaylandFocus::same_client_as, called with the id of a wl_seat resource
SameClientAs(t, o) ==
    /\ pc["app"] = "idle"
    /\ obj[o].status # "none"
    /\ cur' = [cur EXCEPT !["app"].bool = same_client_as(t, o), !["app"].obj = o,
                          !["app"].list = t.surface]
    /\ Goto("app", "same_client_ret")
    /\ UNCHANGED <<made, registry, global, dev, known_seats, lock, obj, events, connected,
                   subs, registered, nextHandle>>

\* the caller takes the value
QueryRet ==
    /\ pc["app"] \in {"owns_ret", "client_seats_ret", "global_ret", "from_resource_ret",
                      "same_client_ret"}
    /\ Return("app")
    /\ UNCHANGED <<made, registry, global, dev, known_seats, lock, obj, events, connected,
                   subs, registered, nextHandle>>

\* ---------------------------------------------------------------- Next
\* the steps by which an operation of the dispatch thread, once begun, goes on
AdvSteps == AdvLock \/ AdvStore
BindSteps == BindLock \/ BindCaps \/ BindPush \/ BindRet
GetSteps == GetScale \/ GetInit \/ GetNew \/ GetInert
\* the ways the callback of get_pointer and get_touch ends when it calls into the seat
GetScaleReenter == GetScaleReenterBlocks \/ GetScaleReenterPanics

\* every operation, on every seat, by every client
Next ==
    \/ \E s \in SeatIds : AdvCreate(s)
    \/ AdvSteps
    \/ \E g \in GlobalIds, c \in Clients, v \in Versions : BindInit(g, c, v)
    \/ BindSteps
    \/ \E c \in Clients : Disconnect(c)
    \/ \E o \in ObjIds : Destroy(o)
    \/ \E o \in ObjIds : DestroyedLock(o)
    \/ DestroyedRetain
    \/ \E s \in SeatIds, d \in Devices : Attach(s, d)
    \/ \E s \in SeatIds, d \in Devices : AttachReplace(s, d)
    \/ \E s \in SeatIds, d \in Devices : AttachAnew(s, d)
    \/ \E s \in SeatIds, d \in Devices : Detach(s, d)
    \/ \E s \in SeatIds, d \in Devices : DetachAbsent(s, d)
    \/ \E o \in ObjIds, d \in Devices : GetLock(o, d)
    \/ GetSteps
    \/ \E s \in SeatIds, o \in ObjIds : Owns(s, o)
    \/ \E s \in SeatIds, c \in Clients : ClientSeats(s, c)
    \/ \E o \in ObjIds : ReleaseReq(o)
    \/ ReleaseRet
    \/ \E o \in ObjIds : OtherReq(o)
    \/ GetScaleReenter
    \/ \E s \in SeatIds : Global(s)
    \/ \E o \in ObjIds : FromResource(o)
    \/ \E t \in FocusTargets, o \in ObjIds : SameClientAs(t, o)
    \/ QueryRet

Spec == Init /\ [][Next]_vars

\* One seat and its capabilities: binds at every version, attach and detach of every
\* device, and the death of bindings.
NextCaps ==
    \/ AdvCreate("seat-0")
    \/ AdvSteps
    \/ \E v \in {1, NameSince} : BindInit(1, "A", v)
    \/ BindSteps
    \/ \E o \in ObjIds : Destroy(o)
    \/ \E o \in ObjIds : DestroyedLock(o)
    \/ DestroyedRetain
    \/ \E d \in Devices : Attach("seat-0", d)
    \/ \E d \in Devices : AttachReplace("seat-0", d)
    \/ \E d \in Devices : AttachAnew("seat-0", d)
    \/ \E d \in Devices : Detach("seat-0", d)
    \/ \E d \in Devices : DetachAbsent("seat-0", d)

SpecCaps == Init /\ [][NextCaps]_vars

\* Two seats and two clients and the queries: the bindings of both clients on both
\* seats and their death, which comes after their bind has returned.
NextQuery ==
    \/ \E s \in SeatIds : AdvCreate(s)
    \/ AdvSteps
    \/ \E g \in GlobalIds, c \in Clients : BindInit(g, c, GlobalVersion)
    \/ BindSteps
    \/ \E o \in ObjIds : DestroyBound(o)
    \/ \E o \in ObjIds : DestroyedLock(o)
    \/ DestroyedRetain
    \/ \E s \in SeatIds, o \in ObjIds : Owns(s, o)
    \/ \E s \in SeatIds, c \in Clients : ClientSeats(s, c)
    \/ QueryRet

SpecQuery == Init /\ [][NextQuery]_vars

\* One seat whose bindings die, the pointer attached and detached, and the queries.
NextDead ==
    \/ AdvCreate("seat-0")
    \/ AdvSteps
    \/ BindInit(1, "A", GlobalVersion)
    \/ BindSteps
    \/ Disconnect("A")
    \/ \E o \in ObjIds : Destroy(o)
    \/ \E o \in ObjIds : DestroyedLock(o)
    \/ DestroyedRetain
    \/ Attach("seat-0", "pointer")
    \/ Detach("seat-0", "pointer")
    \/ \E o \in ObjIds : Owns("seat-0", o)
    \/ ClientSeats("seat-0", "A")
    \/ QueryRet

SpecDead == Init /\ [][NextDead]_vars

\* One seat and the requests of its bindings: get_pointer, get_keyboard and
\* get_touch, with the devices attached and detached around them.
NextRequest ==
    \/ AdvCreate("seat-0")
    \/ AdvSteps
    \/ BindInit(1, "A", GlobalVersion)
    \/ BindSteps
    \/ \E o \in ObjIds, d \in Devices : GetLock(o, d)
    \/ GetSteps
    \/ \E d \in Devices : Attach("seat-0", d)
    \/ \E d \in Devices : AttachReplace("seat-0", d)
    \/ \E d \in Devices : AttachAnew("seat-0", d)
    \/ \E d \in Devices : Detach("seat-0", d)

SpecRequest == Init /\ [][NextRequest]_vars

\* One seat and every operation on it: the four requests of its bindings and a
\* request of another kind, the pointer attached and detached, the death of the
\* bindings, and every query.
NextSeat ==
    \/ AdvCreate("seat-0")
    \/ AdvSteps
    \/ BindInit(1, "A", GlobalVersion)
    \/ BindSteps
    \/ \E o \in ObjIds : DestroyBound(o)
    \/ \E o \in ObjIds : DestroyedLock(o)
    \/ DestroyedRetain
    \/ Attach("seat-0", "pointer")
    \/ Detach("seat-0", "pointer")
    \/ \E o \in ObjIds, d \in Devices : GetLock(o, d)
    \/ GetSteps
    \/ \E o \in ObjIds : ReleaseReq(o)
    \/ ReleaseRet
    \/ \E o \in ObjIds : OtherReq(o)
    \/ \E o \in ObjIds : Owns("seat-0", o)
    \/ ClientSeats("seat-0", "A")
    \/ Global("seat-0")
    \/ \E o \in ObjIds : FromResource(o)
    \/ QueryRet

SpecSeat == Init /\ [][NextSeat]_vars

\* Two seats side by side: the bindings of each and their death, the pointer of each
\* attached and detached, and the queries that tell the seats apart.
NextSeats ==
    \/ \E s \in SeatIds : AdvCreate(s)
    \/ AdvSteps
    \/ \E g \in GlobalIds : BindInit(g, "A", GlobalVersion)
    \/ BindSteps
    \/ \E o \in ObjIds : DestroyBound(o)
    \/ \E o \in ObjIds : DestroyedLock(o)
    \/ DestroyedRetain
    \/ \E s \in SeatIds : Attach(s, "pointer")
    \/ \E s \in SeatIds : Detach(s, "pointer")
    \/ \E s \in SeatIds, o \in ObjIds : Owns(s, o)
    \/ \E o \in ObjIds : FromResource(o)
    \/ QueryRet

SpecSeats == Init /\ [][NextSeats]_vars

\* The focus targets: the bindings of two clients on one seat, whose ids stand for
\* the connections, and same_client_as of every target with every such id.
NextFocus ==
    \/ AdvCreate("seat-0")
    \/ AdvSteps
    \/ \E c \in Clients : BindInit(1, c, GlobalVersion)
    \/ BindSteps
    \/ \E c \in Clients : Disconnect(c)
    \/ \E t \in FocusTargets, o \in ObjIds : SameClientAs(t, o)
    \/ QueryRet

SpecFocus == Init /\ [][NextFocus]_vars

\* the steps by which the dispatch thread goes on with the callback it is in, and the
\* step by which the application thread takes the value of a query
DispSteps == AdvSteps \/ BindSteps \/ GetSteps \/ DestroyedRetain \/ ReleaseRet

\* One seat, with the threads scheduled: a thread that can take its next step takes it.
\* The callback of get_pointer and get_touch returns, or calls into the seat.
NextLive ==
    \/ AdvCreate("seat-0")
    \/ AdvSteps
    \/ BindInit(1, "A", GlobalVersion)
    \/ BindSteps
    \/ \E o \in ObjIds : Destroy(o)
    \/ \E o \in ObjIds : DestroyedLock(o)
    \/ DestroyedRetain
    \/ Attach("seat-0", "pointer")
    \/ Detach("seat-0", "pointer")
    \/ \E o \in ObjIds, d \in Devices : GetLock(o, d)
    \/ GetSteps
    \/ GetScaleReenter
    \/ \E o \in ObjIds : ReleaseReq(o)
    \/ ReleaseRet
    \/ \E o \in ObjIds : Owns("seat-0", o)
    \/ ClientSeats("seat-0", "A")
    \/ Global("seat-0")
    \/ QueryRet

SpecLive == Init /\ [][NextLive]_vars /\ WF_vars(DispSteps) /\ WF_vars(QueryRet)

\* One seat whose bindings die, at any moment, by the destruction of an object or the
\* close of the connection, with the threads scheduled and with the runtime running
\* the destroyed callback of every object that has died.
NextPrune ==
    \/ AdvCreate("seat-0")
    \/ AdvSteps
    \/ BindInit(1, "A", GlobalVersion)
    \/ BindSteps
    \/ Disconnect("A")
    \/ \E o \in ObjIds : Destroy(o)
    \/ \E o \in ObjIds : DestroyedLock(o)
    \/ DestroyedRetain
    \/ Attach("seat-0", "pointer")
    \/ Detach("seat-0", "pointer")
    \/ ClientSeats("seat-0", "A")
    \/ QueryRet

SpecPrune ==
    /\ Init /\ [][NextPrune]_vars
    /\ WF_vars(DispSteps) /\ WF_vars(QueryRet)
    /\ \A o \in ObjIds : WF_vars(DestroyedLock(o))

\* ================================================================ claims
\* the bitmask of a set of devices, as the protocol defines it
Bitmask(present) ==
    (IF "pointer" \in present THEN 1 ELSE 0) + (IF "keyboard" \in present THEN 2 ELSE 0)
    + (IF "touch" \in present THEN 4 ELSE 0)
HasBit(mask, bit) == (mask \div bit) % 2 = 1
BitOf(d) == IF d = "pointer" THEN 1 ELSE IF d = "keyboard" THEN 2 ELSE 4

IsCaps(e) == e.type = "capabilities"
IsName(e) == e.type = "name"
\* the capabilities events of a binding, in the order they were sent
CapsOf(o) == SelectSeq(events[o], IsCaps)
NamesOf(o) == SelectSeq(events[o], IsName)
Masks(o) == [i \in 1..Len(CapsOf(o)) |-> CapsOf(o)[i].mask]
Listed(s) == Range(known_seats[s])
Bound == {o \in ObjIds : obj[o].status # "none"}
\* C1: in every state where no operation holds the lock of a seat, the last
\* capabilities event of every live binding registered in its known_seats carries
\* the seat's current bitmask: no binding misses a broadcast and keeps a stale value.
C1_ViewIsCurrent ==
    \A s \in SeatIds : lock[s] = "free" =>
        \A o \in Listed(s) : Upgrade(o) =>
            /\ Len(CapsOf(o)) >= 1
            /\ CapsOf(o)[Len(CapsOf(o))].mask = Bitmask(Present(dev[s]))

\* a live, registered binding that got its initial bitmask and then a broadcast
C1_Witness ==
    \E o \in Listed("seat-0") :
        /\ lock["seat-0"] = "free" /\ Upgrade(o)
        /\ Masks(o) = <<1, 3>>

\* C2: when bind is about to return, the new binding has been sent exactly one
\* capabilities event, also when the bitmask is empty, and it carries the devices the
\* seat has at that moment.
C2_InitialCaps ==
    pc["disp"] = "bind_ret" =>
        LET o == cur["disp"].obj
            s == cur["disp"].seat IN
        /\ Len(CapsOf(o)) = 1
        /\ CapsOf(o)[1].mask = Bitmask(Present(dev[s]))
        /\ \A d \in Devices : d \in Present(dev[s]) <=> HasBit(CapsOf(o)[1].mask, BitOf(d))

\* a version 1 bind about to return on a seat that has a keyboard only
C2_Witness ==
    /\ pc["disp"] = "bind_ret"
    /\ obj[cur["disp"].obj].version = 1
    /\ Present(dev[cur["disp"].seat]) = {"keyboard"}
    /\ Masks(cur["disp"].obj) = <<2>>

\* what a step that changes the bitmask of a seat does to the event streams
C3_Step ==
    \A s \in SeatIds :
        Bitmask(Present(dev'[s])) # Bitmask(Present(dev[s])) =>
            \A o \in ObjIds :
                events'[o] =
                    IF o \in Listed(s) /\ Upgrade(o)
                    THEN Append(events[o], CapsEvent(Bitmask(Present(dev'[s])), Present(dev'[s])))
                    ELSE events[o]

\* C3: a step of attach or detach that changes the bitmask of a seat sends every
\* registered binding that resolves one capabilities event with the new bitmask, the
\* same for all, and sends nothing to the entries that do not resolve.
C3_BroadcastReachesAll == [][C3_Step]_vars

\* a broadcast has skipped a dead entry and reached the live entry behind it
C3_Witness ==
    \E i, j \in 1..Len(known_seats["seat-0"]) :
        LET a == known_seats["seat-0"][i]
            b == known_seats["seat-0"][j] IN
        /\ i < j
        /\ ~Upgrade(a) /\ Len(CapsOf(a)) = 1
        /\ Upgrade(b) /\ Len(CapsOf(b)) = 2

\* C4: every capabilities event a binding was ever sent carries exactly the bitmask of
\* the devices the seat had when the event was generated.
C4_EventsAreTrue ==
    \A o \in ObjIds : \A i \in 1..Len(events[o]) :
        IsCaps(events[o][i]) => events[o][i].mask = Bitmask(events[o][i].at)

\* a binding was told of pointer and touch together
C4_Witness == \E o \in ObjIds : Len(CapsOf(o)) >= 2 /\ CapsOf(o)[Len(CapsOf(o))].mask = 5

C6_NameOnce ==
    \A o \in Bound :
        IF obj[o].version >= 2
        THEN /\ Len(NamesOf(o)) = 1
             /\ IsName(events[o][1])
             /\ events[o][1].name = obj[o].seat
        ELSE Len(NamesOf(o)) = 0

\* a version 2 binding that got its name, its initial bitmask and a broadcast
C6_Witness ==
    \E o \in Bound :
        /\ obj[o].version = 2
        /\ Len(events[o]) = 3
        /\ IsName(events[o][1]) /\ IsCaps(events[o][2]) /\ IsCaps(events[o][3])

\* what a call of owns returns, as the claim has it
C7_Step ==
    \A s \in SeatIds, o \in ObjIds :
        Owns(s, o) => (cur'["app"].bool <=> (o \in Listed(s) /\ Upgrade(o)))

\* C7: every call of owns(obj) on a seat returns true exactly when obj is an entry of
\* the seat's known_seats that resolves to a live object.
C7_OwnsIffLive == [][C7_Step]_vars

\* what a call of client_seats returns
C8_Step ==
    \A s \in SeatIds, c \in Clients :
        ClientSeats(s, c) =>
            LET r == cur'["app"].list IN
            /\ Range(r) = {o \in Listed(s) : Upgrade(o) /\ obj[o].client = c}
            /\ Len(r) = Cardinality(Range(r))

\* C8: every call of client_seats(client) returns exactly the bindings that are
\* registered in known_seats, resolve, and belong to that client, each once.
C8_ClientSeatsExact == [][C8_Step]_vars

\* client_seats has returned one binding of a seat that also lists a dead binding of
\* the same client and a live binding of the other client
C8_Witness ==
    /\ pc["app"] = "client_seats_ret"
    /\ Len(cur["app"].list) = 1
    /\ LET o == cur["app"].list[1]
           s == obj[o].seat IN
        /\ Upgrade(o)
        /\ \E a \in Listed(s) : ~Upgrade(a) /\ obj[a].client = obj[o].client
        /\ \E b \in Listed(s) : Upgrade(b) /\ obj[b].client # obj[o].client

\* what a step does to a binding that is dead
C9_Step ==
    \A o \in Bound :
        (obj[o].status \in {"dead", "gone"} /\ ~InBind(o)) =>
            /\ events'[o] = events[o]
            /\ pc'["app"] \in {"idle", "owns_ret", "client_seats_ret"}
            /\ \A s \in SeatIds, c \in Clients :
                   ClientSeats(s, c) => o \notin Range(cur'["app"].list)

\* C9: once a binding is dead (its object destroyed or its connection closed, its
\* entry pruned or not) and its bind has returned, every step of attach, detach, owns
\* and client_seats ends normally, none sends it an event, and no call of
\* client_seats returns it.
C9_DeadIsLeftAlone == [][C9_Step]_vars

\* a dead binding that is still listed has been skipped by the broadcast of an
\* attach, and client_seats has returned without it
C9_Witness ==
    \E o \in Listed("seat-0") :
        /\ obj[o].status = "dead"
        /\ Masks(o) = <<0>>
        /\ dev["seat-0"]["pointer"] # None
        /\ pc["app"] = "client_seats_ret"
        /\ o \notin Range(cur["app"].list)

\* the sub-objects created, the one a request is creating, the registered ones
Subs == {x \in SubIds : subs[x].status # "none"}
InGet(x) == pc["disp"] = "get_new" /\ cur["disp"].id = x
Registered(x) == \E h \in HandleIds : x \in registered[h]

C10_Step ==
    \* the request creates the object
    /\ (pc["disp"] = "get_init" /\ pc'["disp"] # "get_init") =>
           /\ pc'["disp"] = "get_new"
           /\ Cardinality(Subs') = Cardinality(Subs) + 1
           /\ subs'[cur'["disp"].id].kind = cur["disp"].dev
    \* and returns having registered it exactly when the handle is there
    /\ (pc["disp"] = "get_new" /\ pc'["disp"] # "get_new") =>
           LET x == cur["disp"].id
               h == dev[cur["disp"].seat][cur["disp"].dev] IN
           /\ pc'["disp"] = "idle"
           /\ lock'[cur["disp"].seat] = "free"
           /\ h # None => registered' = [registered EXCEPT ![h] = @ \cup {x}]
           /\ h = None => registered' = registered
    \* and no other step registers anything
    /\ \A x \in Subs : ~InGet(x) => (Registered(x)' <=> Registered(x))

\* C10: a get_pointer, get_keyboard or get_touch request always creates its object; the
\* object is registered with the device handle exactly when the seat has that handle
\* at the time of the request; an object left unregistered is never registered later.
C10_GetCreates == [][C10_Step]_vars

\* an object created while the seat had no such device is still unregistered after the
\* device has been attached
C10_Witness ==
    \E x \in Subs :
        /\ pc["disp"] = "idle"
        /\ subs[x].handle = None
        /\ ~Registered(x)
        /\ dev[obj[subs[x].obj].seat][subs[x].kind] # None

\* the steps of the dispatch thread that begin and end a release request
ReleaseBegins == pc["disp"] = "idle" /\ pc'["disp"] = "release"
ReleaseEnds == pc["disp"] = "release" /\ pc'["disp"] # "release"

C11_Step ==
    /\ (ReleaseBegins \/ ReleaseEnds) =>
           UNCHANGED <<made, registry, global, dev, known_seats, lock, obj, events,
                       connected, subs, registered, nextHandle>>
    /\ ReleaseEnds => pc'["disp"] = "idle"

\* C11: a release request, whenever and however often it is issued, leaves the devices,
\* known_seats, the global id, the lock and every event stream as they were, and
\* returns normally.
C11_ReleaseIsNoOp == [][C11_Step]_vars

\* a release request is being served on a seat that has a pointer, a live binding that
\* was told of it, and a dead binding not yet pruned
C11_Witness ==
    /\ pc["disp"] = "release"
    /\ dev["seat-0"]["pointer"] # None
    /\ Masks(cur["disp"].obj) = <<0, 1>>
    /\ \E a \in Listed("seat-0") : ~Upgrade(a)

C12_Step ==
    \A o \in ObjIds : OtherReq(o) =>
        \* no lock is held and the seat state is as it was
        /\ \A s \in SeatIds : lock[s] = "free" /\ lock'[s] = "free"
        /\ UNCHANGED <<made, registry, global, dev, known_seats, events, subs, registered>>
        \* the failure is handed to the runtime, which goes on to serve the other
        \* connections
        /\ pc'["disp"] = "idle"

BoundOn(o) == events[o][1].name

C13_Step ==
    \* from_resource gives back the seat of the global the binding was bound on, and
    \* that seat alone lists the binding
    /\ \A o \in ObjIds : FromResource(o) =>
           LET r == cur'["app"].seat IN
           /\ r = BoundOn(o)
           /\ r \in made /\ registry[global[r]] = r
           /\ (obj[o].status \in {"live", "dead"} /\ ~InBind(o)) => o \in Listed(r)
           /\ \A s \in SeatIds \ {r} : o \notin Listed(s)
    \* the seat owns the binding while it is live and registered, and no other seat does
    /\ \A s \in SeatIds, o \in ObjIds : Owns(s, o) =>
           /\ (s = BoundOn(o) /\ Upgrade(o) /\ o \in Listed(s)) => cur'["app"].bool
           /\ s # BoundOn(o) => ~cur'["app"].bool
    \* attach and detach on a seat send nothing to the bindings of another seat and
    \* leave the other seat as it was
    /\ \A s \in SeatIds : dev'[s] # dev[s] =>
           /\ \A t \in SeatIds \ {s} :
                  dev'[t] = dev[t] /\ known_seats'[t] = known_seats[t] /\ global'[t] = global[t]
           /\ \A o \in Bound : BoundOn(o) # s => events'[o] = events[o]

\* C13: two calls of new_wl_seat make two seats that share nothing: from_resource of a
\* binding returns the seat of the global it was bound on, that seat owns it while it
\* is live and registered and no other seat owns or lists it, and attach and detach on
\* one seat send no event to the bindings of the other and change nothing of it.
C13_SeatsAreIndependent == [][C13_Step]_vars

\* from_resource has returned the second seat for a binding of it that was told of its
\* pointer, while a binding of the first seat was told nothing
C13_Witness ==
    /\ pc["app"] = "from_resource_ret"
    /\ cur["app"].seat = "seat-1"
    /\ Masks(cur["app"].obj) = <<0, 1>>
    /\ \E a \in Listed("seat-0") : Upgrade(a) /\ Masks(a) = <<0>>

\* C14: every operation completes: a lock that a thread holds is released, and a
\* thread that is in an operation comes to the end of it (by a return, or at worst by
\* a panic) and does not wait for ever, also when a callback that an operation invokes
\* calls back into the seat.
C14_AlwaysCompletes ==
    /\ \A s \in SeatIds : (lock[s] \in Threads) ~> (lock[s] \notin Threads)
    /\ \A t \in Threads : (pc[t] # "idle") ~> (pc[t] \in {"idle", "panicked"})

C15_Step ==
    \A t \in FocusTargets, o \in ObjIds : SameClientAs(t, o) =>
        /\ cur'["app"].bool <=>
               (wl_surface(t) # <<>> /\ wl_surface(t)[1].client = obj[o].client)
        /\ wl_surface(t) = <<>> => ~cur'["app"].bool

\* C15: the default same_client_as of a focus target returns true exactly when
\* wl_surface() returns a surface and the connection of that surface is the connection
\* of the given id; a target whose wl_surface() is None returns false for every id.
C15_SameClientIffSurface == [][C15_Step]_vars

\* same_client_as has returned true for a surface of client B and the id of a binding
\* of client B, while client A has a binding too
C15_Witness ==
    /\ pc["app"] = "same_client_ret"
    /\ cur["app"].bool
    /\ cur["app"].list = <<Surface("B")>>
    /\ obj[cur["app"].obj].client = "B"
    /\ \E a \in Bound : obj[a].client = "A"

\* C16: the lock of a seat is not held across a call that could re-enter the seat: in
\* get_pointer, get_keyboard and get_touch it is not held while the callback that
\* looks up the scale of the client runs, nor while the device handle registers the
\* new object.
C16_NoLockAcrossCallbacks ==
    pc["disp"] \in {"get_scale", "get_new"} => lock[cur["disp"].seat] # "disp"

\* the place of an entry in a list that has it
Index(q, x) == CHOOSE i \in 1..Len(q) : q[i] = x
\* q is p without the entries of o: the others are all there, once, in the order of p
Without(q, p, o) ==
    /\ Range(q) = Range(p) \ {o}
    /\ Len(q) = Len(p) - Cardinality({i \in 1..Len(p) : p[i] = o})
    /\ \A a, b \in Range(q) : Index(q, a) < Index(q, b) <=> Index(p, a) < Index(p, b)

C17_Step ==
    \* the step of destroyed that prunes
    /\ (pc["disp"] = "des_retain" /\ pc'["disp"] # "des_retain") =>
           LET o == cur["disp"].obj
               s == cur["disp"].seat IN
           /\ Without(known_seats'[s], known_seats[s], o)
           /\ \A t \in SeatIds \ {s} : known_seats'[t] = known_seats[t]
           /\ UNCHANGED <<made, registry, global, dev, events, subs, registered>>
    \* pruning an object that has no entry, or pruning a second time, changes nothing
    /\ \A s \in SeatIds, o \in ObjIds :
           /\ o \notin Listed(s) => Retain(known_seats[s], o) = known_seats[s]
           /\ Retain(Retain(known_seats[s], o), o) = Retain(known_seats[s], o)

\* C17: destroyed removes from known_seats the entries of the destroyed object and
\* nothing else: the other entries stay, in their order, and the devices, the global
\* id and the other seat are unchanged; pruning an object without entry, or twice,
\* leaves the list as it was.
C17_DestroyedPrunesOne == [][C17_Step]_vars

\* the first of three bindings of a seat has been destroyed and pruned, the two behind
\* it are left in their order
C17_Witness ==
    /\ known_seats["seat-0"] = <<2, 3>>
    /\ obj[1].status = "gone" /\ obj[1].seat = "seat-0"
    /\ pc["disp"] = "idle"

\* the steps that push in bind and that prune in destroyed
BindPushes == pc["disp"] = "bind_push" /\ pc'["disp"] # "bind_push"
DestroyedPrunes == pc["disp"] = "des_retain" /\ pc'["disp"] # "des_retain"

C18_Step ==
    \* bind adds one entry, the one of its object
    /\ BindPushes =>
           known_seats' = [known_seats EXCEPT ![cur["disp"].seat] = Append(@, cur["disp"].obj)]
    \* only destroyed makes a list lose an entry, only bind makes it gain one
    /\ \A s \in SeatIds :
           /\ Range(known_seats[s]) \ Range(known_seats'[s]) # {} => DestroyedPrunes
           /\ Range(known_seats'[s]) \ Range(known_seats[s]) # {} => BindPushes
           /\ known_seats'[s] # known_seats[s] => (DestroyedPrunes \/ BindPushes)
    \* the broadcast of attach and detach, the queries and the requests change nothing
    /\ (\/ dev' # dev
        \/ pc'["app"] # pc["app"]
        \/ pc["disp"] \in {"get_scale", "get_init", "get_new", "release"}
        \/ pc'["disp"] \in {"get_scale", "get_init", "get_new", "release", "panicked"})
       => known_seats' = known_seats

\* C18: only destroyed removes entries from known_seats and only bind adds them, one
\* per bind: the broadcast of attach and detach, owns, client_seats, global,
\* from_resource, release and the three get requests leave known_seats as it is, also
\* when it has entries that do not resolve.
C18_OnlyBindAndDestroyed == [][C18_Step]_vars

\* client_seats has returned the live binding of a seat that also lists a dead one,
\* after a get request of the live binding was served
C18_Witness ==
    /\ pc["app"] = "client_seats_ret"
    /\ \E a, b \in Listed("seat-0") :
           /\ obj[a].status = "dead"
           /\ Upgrade(b) /\ cur["app"].list = <<b>>
           /\ \E x \in SubIds : subs[x].status = "live" /\ subs[x].obj = b

\* C19: an entry of known_seats dangles only for a time: the entry of every binding
\* that has died is in the end removed by destroyed, and once the destroyed callback
\* of an object has run no list has an entry of it, so that when all have run every
\* entry resolves.
C19_DanglingIsTransient ==
    /\ \A o \in ObjIds :
           (obj[o].status = "dead") ~>
               (obj[o].status = "gone" /\ \A s \in SeatIds : o \notin Listed(s))
    /\ [](\A s \in SeatIds : \A o \in Listed(s) : obj[o].status # "gone")
    /\ []((\A o \in ObjIds : obj[o].status # "dead" /\ ~InBind(o)) =>
              \A s \in SeatIds : \A o \in Listed(s) : Upgrade(o))

\* two bindings have died and both entries have been pruned, while a third binding is
\* listed and resolves
C19_Witness ==
    /\ obj[1].status = "gone" /\ obj[2].status = "gone"
    /\ known_seats["seat-0"] = <<3>> /\ Upgrade(3)
    /\ pc["disp"] = "idle"

\* a bind is being served
Binding == pc["disp"] \in {"bind_lock", "bind_caps", "bind_push", "bind_ret"}

C20_Step ==
    \A s \in SeatIds :
        \* None until new_wl_seat stores the id of the global it has created
        /\ s \notin made => global[s] = None
        /\ global'[s] # global[s] =>
               /\ pc["disp"] = "adv_store" /\ cur["disp"].seat = s
               /\ global[s] = None
               /\ global'[s] # None /\ registry[global'[s]] = s
        \* set once, never cleared
        /\ global[s] # None => global'[s] = global[s]
        \* every call of global returns it
        /\ Global(s) => (cur'["app"].id = global[s] /\ global[s] # None /\ registry[global[s]] = s)
        \* every bind finds it set
        /\ (Binding /\ cur["disp"].seat = s) => (global[s] # None /\ registry[global[s]] = s)

\* C20: the global id of a seat is None until new_wl_seat stores the id of the global
\* it created, is set once and never cleared or changed, is what every later call of
\* global returns whatever binds, requests, attaches, detaches and destructions came
\* between, and is set when a bind is served.
C20_GlobalSetOnce == [][C20_Step]_vars

\* global has returned the id of the seat's global after a bind, a get request, and
\* the destruction and pruning of the binding, with the pointer attached
C20_Witness ==
    /\ pc["app"] = "global_ret"
    /\ cur["app"].id = 1 /\ registry[1] = "seat-0"
    /\ obj[1].status = "gone"
    /\ subs[1].status = "live"
    /\ dev["seat-0"]["pointer"] # None

====
